---- MODULE Spec2Model ----
(***************************************************************************)
(* uproot_methods/common/TVector.py: the mixins Common, ArrayMethods and   *)
(* Methods (magnitude, azimuth, angle and alignment tests of spatial       *)
(* vectors, for one vector and for an array of vectors).                   *)
(*                                                                         *)
(* Numbers.  The program computes in binary floating point.  The model     *)
(* computes in a finite-precision format with the same rules and fewer     *)
(* values: a number is a multiple of 1/Scale of magnitude at most          *)
(* MaxFinite/Scale, or PosInf, NegInf or NaN.  Every operation returns the *)
(* exact result rounded to the nearest representable number (ties to the   *)
(* even one); a result too small rounds to zero (underflow), a result      *)
(* beyond MaxFinite becomes an infinity (overflow), and the infinities and *)
(* NaN combine as in IEEE 754.  Signed zeros are not distinguished.        *)
(*                                                                         *)
(* Angles (results of arctan2 and arccos) are counted in units of pi/4,    *)
(* rounded to the nearest unit; math.pi is Pi units.                       *)
(***************************************************************************)
EXTENDS Integers, Sequences, FiniteSets, TLC

\* The record of a call: the operation, the mode it ran in (array or scalar),
\* the position it was given in scalar mode, its arguments and its outcome.
Call(op, mode, i, tolerance, normal, degrees, out) ==
  [op |-> op, mode |-> mode, i |-> i, tolerance |-> tolerance,
   normal |-> normal, degrees |-> degrees, out |-> out]

\* ------------------------------------------------------------- bounds
\* Grid steps per unit: the number 1.0 is Scale.
Scale == 16
\* Largest finite magnitude, in grid steps.
MaxFinite == 16383
\* Number of vectors in each array-mode operand.
ArrayLen == 2

\* ------------------------------------------------------------ numbers
PosInf == MaxFinite + 1
NegInf == -(MaxFinite + 1)
NaN == MaxFinite + 2

IsNaN(a) == a = NaN
IsInf(a) == a = PosInf \/ a = NegInf
IsFinite(a) == ~IsNaN(a) /\ ~IsInf(a)

\* The number 1.0.
One == Scale

Sgn(n) == IF n > 0 THEN 1 ELSE IF n < 0 THEN -1 ELSE 0
Abs(n) == IF n < 0 THEN -n ELSE n

\* n/d (d > 0) rounded to the nearest integer, ties to even.
RoundDiv(n, d) ==
  LET q == n \div d
      r == n % d
  IN  IF 2 * r < d THEN q
      ELSE IF 2 * r > d THEN q + 1
      ELSE IF q % 2 = 0 THEN q ELSE q + 1

\* Overflow: a rounded result beyond the largest finite number is infinite.
Fin(n) == IF n > MaxFinite THEN PosInf ELSE IF n < -MaxFinite THEN NegInf ELSE n

\* The comparisons of floats: every comparison with NaN is false.
Lt(a, b) == ~IsNaN(a) /\ ~IsNaN(b) /\ a < b
Gt(a, b) == Lt(b, a)
Eq(a, b) == ~IsNaN(a) /\ ~IsNaN(b) /\ a = b

Neg(a) == IF IsNaN(a) THEN NaN ELSE -a

FAdd(a, b) ==
  IF IsNaN(a) \/ IsNaN(b) THEN NaN
  ELSE IF IsInf(a) /\ IsInf(b) THEN (IF a = b THEN a ELSE NaN)
  ELSE IF IsInf(a) THEN a
  ELSE IF IsInf(b) THEN b
  ELSE Fin(a + b)

FSub(a, b) == FAdd(a, Neg(b))

FMul(a, b) ==
  IF IsNaN(a) \/ IsNaN(b) THEN NaN
  ELSE IF IsInf(a) \/ IsInf(b)
       THEN (IF a = 0 \/ b = 0 THEN NaN
             ELSE IF Sgn(a) * Sgn(b) > 0 THEN PosInf ELSE NegInf)
  ELSE Fin(RoundDiv(a * b, Scale))

\* IEEE division (the array engine's true_divide): x/0 is an infinity, 0/0 NaN.
FDiv(a, b) ==
  IF IsNaN(a) \/ IsNaN(b) THEN NaN
  ELSE IF IsInf(a) /\ IsInf(b) THEN NaN
  ELSE IF IsInf(a) THEN (IF Sgn(a) * (IF b < 0 THEN -1 ELSE 1) > 0 THEN PosInf ELSE NegInf)
  ELSE IF IsInf(b) THEN 0
  ELSE IF b = 0 THEN (IF a = 0 THEN NaN ELSE IF a > 0 THEN PosInf ELSE NegInf)
  ELSE Fin(Sgn(b) * RoundDiv(a * Scale, Abs(b)))

RECURSIVE ISqrt(_)
\* The integer square root: the largest r with r*r <= n.
ISqrt(n) ==
  IF n < 2 THEN n
  ELSE LET s == 2 * ISqrt(n \div 4)
       IN  IF (s + 1) * (s + 1) <= n THEN s + 1 ELSE s

\* IEEE square root (numpy.sqrt): NaN for a negative number.
FSqrt(a) ==
  IF IsNaN(a) \/ a < 0 THEN NaN
  ELSE IF a = PosInf THEN PosInf
  ELSE LET n == a * Scale
           lo == ISqrt(n)
       IN  IF n <= lo * lo + lo THEN lo ELSE lo + 1

FAbs(a) == IF IsNaN(a) THEN NaN ELSE Abs(a)

\* Python's float division (scalar mode): a zero divisor raises ZeroDivisionError.
PyDivRaises(a, b) == ~IsNaN(b) /\ b = 0

\* Python's min(a, b) and max(a, b): a is kept unless b compares smaller (larger).
PyMin(a, b) == IF Lt(b, a) THEN b ELSE a
PyMax(a, b) == IF Gt(b, a) THEN b ELSE a

\* numpy.clip(x, -1, 1): NaN stays NaN.
Clip(a) == IF IsNaN(a) THEN NaN ELSE IF a < -One THEN -One ELSE IF a > One THEN One ELSE a

\* numpy.sign: -1, 0 or 1, and NaN for NaN.
FSign(a) == IF IsNaN(a) THEN NaN ELSE Sgn(a)

\* ------------------------------------------------------------- angles
\* math.pi, in angle units (one unit is a quarter of pi).
Pi == 4

\* The angle of the direction (|x|, |y|) of the first quadrant, x and y finite and
\* not both zero, to the nearest unit: 0, 1 (pi/4) or 2 (pi/2).  The breakpoints
\* are tan(pi/8) = sqrt(2) - 1 and tan(3 pi/8) = sqrt(2) + 1.
Octant(ax, ay) ==
  IF (ax + ay) * (ax + ay) < 2 * ax * ax THEN 0
  ELSE IF (ax + ay) * (ax + ay) < 2 * ay * ay THEN 2
  ELSE 1

\* math.atan2(y, x) and numpy.arctan2(y, x): the azimuth in [-Pi, Pi].
Atan2(y, x) ==
  IF IsNaN(y) \/ IsNaN(x) THEN NaN
  ELSE IF y = 0 THEN (IF x >= 0 THEN 0 ELSE Pi)
  ELSE LET k == IF IsInf(y) /\ IsInf(x) THEN 1
                ELSE IF IsInf(y) THEN 2
                ELSE IF IsInf(x) THEN 0
                ELSE Octant(Abs(x), Abs(y))
       IN  Sgn(y) * (IF x >= 0 THEN k ELSE Pi - k)

\* arccos of a number of [-1, 1], to the nearest unit; NaN for NaN and outside.
\* The breakpoints are cos(pi/8) and cos(3 pi/8), whose squares are
\* (2 + sqrt(2))/4 and (2 - sqrt(2))/4.
Acos(c) ==
  IF IsNaN(c) \/ c > One \/ c < -One THEN NaN
  ELSE LET l == 4 * c * c - 2 * Scale * Scale
           q == 2 * Scale * Scale * Scale * Scale
           k == IF l >= 0 /\ l * l >= q THEN 0
                ELSE IF l >= 0 \/ q >= l * l THEN 1
                ELSE 2
       IN  IF c >= 0 THEN k ELSE Pi - k

\* Float arithmetic on angles; the grid of angles is closed under it.
AngSub(a, b) == IF IsNaN(a) \/ IsNaN(b) THEN NaN ELSE a - b
AngAdd(a, b) == IF IsNaN(a) \/ IsNaN(b) THEN NaN ELSE a + b
\* x % m for m > 0: the remainder with the sign of m, in [0, m).
AngMod(a, m) == IF IsNaN(a) THEN NaN ELSE a % m
\* out *= sign
AngMulSign(a, s) == IF IsNaN(a) \/ IsNaN(s) THEN NaN ELSE a * s
\* out * (180.0/pi): the angle in degrees.
ToDegrees(a) == IF IsNaN(a) THEN NaN ELSE a * (180 \div Pi)

\* ----------------------------------------------------------- outcomes
\* What a call produces: a value, or an exception.
Ok(v) == [err |-> "", val |-> v]
Raise(e, m) == [err |-> e, msg |-> m]
Raised(o) == o.err # ""

\* ------------------------------------------------- scalar-mode vectors
\* A scalar-mode vector: three plain numbers.
Vec(x, y, z) == [x |-> x, y |-> y, z |-> z]

\* The collaborator's dot product of two scalar-mode vectors: a plain number.
dot(a, b) == FAdd(FAdd(FMul(a.x, b.x), FMul(a.y, b.y)), FMul(a.z, b.z))

\* The collaborator's _vector(operator.add, other).
_vector_add(a, b) == Vec(FAdd(a.x, b.x), FAdd(a.y, b.y), FAdd(a.z, b.z))

\* The attributes a value of each kind has: a plain number has no x, y or z.
Attributes(kind) == IF kind = "vector" THEN {"x", "y", "z"} ELSE {}

\* The kind of value the collaborator's dot returns: in scalar mode a plain
\* number, in array mode a plain array of numbers.
DotKind(mode) == IF mode = "scalar" THEN "number" ELSE "ndarray"

\* --------------------------------------------- Methods (scalar mode)
\* Common.mag2 on a scalar-mode vector.
mag2(self) == dot(self, self)

\* Common.mag on a scalar-mode vector.
mag(self) == FSqrt(mag2(self))

\* Methods.phi
phi(self) == Atan2(self.y, self.x)

\* Methods.cosdelta
cosdelta(self, other) ==
  LET m1 == mag2(self)
      m2 == mag2(other)
      s == FSqrt(FMul(m1, m2))
      r == FDiv(dot(self, other), s)
  IN  IF Eq(m1, 0) \/ Eq(m2, 0) THEN Ok(One)
      ELSE IF PyDivRaises(dot(self, other), s)
           THEN Raise("ZeroDivisionError", "float division by zero")
      ELSE Ok(PyMax(-One, PyMin(One, r)))

\* Methods.angle
angle(self, other, degrees) ==
  LET c == cosdelta(self, other)
      out == Acos(c.val)
  IN  IF Raised(c) THEN c
      ELSE IF degrees THEN Ok(ToDegrees(out))
      ELSE Ok(out)

\* Methods.__add__
__add__(self, other) == _vector_add(self, other)

\* Methods.isopposite
isopposite(self, other, tolerance) ==
  LET tmp == __add__(self, other)
  IN  Ok(Lt(FAbs(tmp.x), tolerance) /\ Lt(FAbs(tmp.y), tolerance)
         /\ Lt(FAbs(tmp.z), tolerance))

\* Methods.isperpendicular: tmp is what dot returns, and tmp.x is read first.
isperpendicular(self, other, tolerance) ==
  LET tmp == dot(self, other)
  IN  IF "x" \notin Attributes(DotKind("scalar"))
      THEN Raise("AttributeError", "'float' object has no attribute 'x'")
      ELSE Ok(Lt(FAbs(tmp.x), tolerance) /\ Lt(FAbs(tmp.y), tolerance)
              /\ Lt(FAbs(tmp.z), tolerance))

\* delta_phi without the shift by pi: the difference reduced into [0, 2 pi).
delta_phi_unshifted(phi1, phi2) == AngMod(AngSub(phi1, phi2), 2 * Pi)

\* Common.delta_phi on the azimuths of two vectors.
delta_phi_of(phi1, phi2) ==
  AngSub(AngMod(AngAdd(AngSub(phi1, phi2), Pi), 2 * Pi), Pi)

\* Common.delta_phi in scalar mode.
delta_phi(self, other) == delta_phi_of(phi(self), phi(other))

\* Common.isparallel, on the outcome c of self.cosdelta(other).
isparallel_of(c, tolerance) == Lt(FSub(One, c), tolerance)

\* Common.isantiparallel, on the outcome c of self.cosdelta(other).
isantiparallel_of(c, tolerance) == Lt(FSub(c, -One), tolerance)

\* iscollinear without the absolute value.
iscollinear_signed(c, tolerance) == Lt(FSub(One, c), tolerance)

\* Common.iscollinear, on the outcome c of self.cosdelta(other).
iscollinear_of(c, tolerance) == Lt(FSub(One, FAbs(c)), tolerance)

\* Common.isparallel in scalar mode.
isparallel(self, other, tolerance) ==
  LET c == cosdelta(self, other)
  IN  IF Raised(c) THEN c ELSE Ok(isparallel_of(c.val, tolerance))

\* Common.isantiparallel in scalar mode.
isantiparallel(self, other, tolerance) ==
  LET c == cosdelta(self, other)
  IN  IF Raised(c) THEN c ELSE Ok(isantiparallel_of(c.val, tolerance))

\* Common.iscollinear in scalar mode.
iscollinear(self, other, tolerance) ==
  LET c == cosdelta(self, other)
  IN  IF Raised(c) THEN c ELSE Ok(iscollinear_of(c.val, tolerance))

\* Common.__lt__, __gt__, __le__, __ge__: each raises, whatever the operands.
NoOrdering == Raise("TypeError", "spatial vectors have no natural ordering")
\* __lt__ comparing the first components instead of raising.
__lt__by_x(self, other) == Ok(self.x < other.x)
__lt__(self, other) == NoOrdering
__gt__(self, other) == NoOrdering
__le__(self, other) == NoOrdering
__ge__(self, other) == NoOrdering

\* ------------------------------------------------ buffers (array mode)
\* An array-mode vector holds three component buffers.  A buffer has an identity;
\* an in-place operation (+=, *=, out=, masked assignment) writes the buffer it
\* names, and every other operation returns a new buffer.  A heap is the buffers'
\* contents (mem) and the next unused identity (next).
New(h, val) == [h |-> [mem |-> h.mem @@ (h.next :> val), next |-> h.next + 1],
                r |-> h.next]
Put(h, id, val) == [mem |-> [h.mem EXCEPT ![id] = val], next |-> h.next]
Get(h, id) == h.mem[id]

Map1(F(_), s) == [i \in DOMAIN s |-> F(s[i])]
Map2(F(_, _), s, t) == [i \in DOMAIN s |-> F(s[i], t[i])]

\* The number of selected positions up to position i.
Rank(mask, i) == Cardinality({j \in DOMAIN mask : j <= i /\ mask[j]})
\* s[mask]: the selected elements, in order, as a new array.
Compress(s, mask) ==
  [k \in 1..Rank(mask, Len(mask)) |->
     s[CHOOSE i \in DOMAIN mask : mask[i] /\ Rank(mask, i) = k]]
\* s[mask] = vals: the selected positions take the elements of vals, in order.
Scatter(s, mask, vals) ==
  [i \in DOMAIN s |-> IF mask[i] THEN vals[Rank(mask, i)] ELSE s[i]]

\* A statement followed by the rest of the body: e is evaluated once and F reads
\* its value.
Then(e, F(_)) == CHOOSE r \in {F(x) : x \in {e}} : TRUE

\* The collaborator's dot product of two array-mode vectors: a new buffer.
dot_array(h, a, b) ==
  Then(New(h, Map2(FMul, Get(h, a.x), Get(h, b.x))), LAMBDA out :
  Then(Put(out.h, out.r, Map2(FAdd, Get(out.h, out.r),
                              Map2(FMul, Get(out.h, a.y), Get(out.h, b.y)))), LAMBDA h2 :
  [h |-> Put(h2, out.r, Map2(FAdd, Get(h2, out.r),
                             Map2(FMul, Get(h2, a.z), Get(h2, b.z)))),
   r |-> out.r]))

\* A new vector whose components are F of the components of a and b.
NewVector(h, F(_, _, _), a, b) ==
  Then(New(h, F(h, a, b).x), LAMBDA x :
  Then(New(x.h, F(h, a, b).y), LAMBDA y :
  Then(New(y.h, F(h, a, b).z), LAMBDA z :
  [h |-> z.h, r |-> [x |-> x.r, y |-> y.r, z |-> z.r]])))

\* The collaborator's self + other: a new vector.
add_array(h, a, b) ==
  NewVector(h, LAMBDA g, p, q : [x |-> Map2(FAdd, Get(g, p.x), Get(g, q.x)),
                                 y |-> Map2(FAdd, Get(g, p.y), Get(g, q.y)),
                                 z |-> Map2(FAdd, Get(g, p.z), Get(g, q.z))], a, b)

\* The collaborator's self / m for a buffer m: a new vector.
truediv_array(h, a, m) ==
  NewVector(h, LAMBDA g, p, q : [x |-> Map2(FDiv, Get(g, p.x), Get(g, q)),
                                 y |-> Map2(FDiv, Get(g, p.y), Get(g, q)),
                                 z |-> Map2(FDiv, Get(g, p.z), Get(g, q))], a, m)

\* The collaborator's self /= m: the components of self are written in place.
itruediv_array(h, a, m) ==
  Then(Put(h, a.x, Map2(FDiv, Get(h, a.x), Get(h, m))), LAMBDA h1 :
  Then(Put(h1, a.y, Map2(FDiv, Get(h1, a.y), Get(h1, m))), LAMBDA h2 :
  Put(h2, a.z, Map2(FDiv, Get(h2, a.z), Get(h2, m)))))

\* The collaborator's cross product: a new vector.
cross_array(h, a, b) ==
  NewVector(h, LAMBDA g, p, q :
    [x |-> Map2(FSub, Map2(FMul, Get(g, p.y), Get(g, q.z)),
                      Map2(FMul, Get(g, p.z), Get(g, q.y))),
     y |-> Map2(FSub, Map2(FMul, Get(g, p.z), Get(g, q.x)),
                      Map2(FMul, Get(g, p.x), Get(g, q.z))),
     z |-> Map2(FSub, Map2(FMul, Get(g, p.x), Get(g, q.y)),
                      Map2(FMul, Get(g, p.y), Get(g, q.x)))], a, b)

\* ------------------------------------------ ArrayMethods (array mode)
\* Common.mag2 on an array-mode vector.
Array_mag2(h, self) == dot_array(h, self, self)

\* Common.mag on an array-mode vector.
Array_mag(h, self) ==
  Then(Array_mag2(h, self), LAMBDA m :
  New(m.h, Map1(FSqrt, Get(m.h, m.r))))

\* rho2 with out bound to self.x itself instead of to the product self.x * self.x.
Array_rho2_aliased(h, self) ==
  Then(Put(h, self.x, Map2(FMul, Get(h, self.x), Get(h, self.x))), LAMBDA h1 :
  [h |-> Put(h1, self.x, Map2(FAdd, Get(h1, self.x),
                              Map2(FMul, Get(h1, self.y), Get(h1, self.y)))),
   r |-> self.x])

\* Common.rho2 on an array-mode vector.
Array_rho2(h, self) ==
  Then(New(h, Map2(FMul, Get(h, self.x), Get(h, self.x))), LAMBDA out :
  [h |-> Put(out.h, out.r, Map2(FAdd, Get(out.h, out.r),
                                Map2(FMul, Get(out.h, self.y), Get(out.h, self.y)))),
   r |-> out.r])

\* ArrayMethods.unit(inplace=False)
ArrayMethods_unit(h, self) ==
  Then(Array_mag(h, self), LAMBDA m :
  truediv_array(m.h, self, m.r))

\* ArrayMethods.unit(inplace=True): nothing is returned.
ArrayMethods_unit_inplace(h, self) ==
  Then(Array_mag(h, self), LAMBDA m :
  itruediv_array(m.h, self, m.r))

\* ArrayMethods.rho
ArrayMethods_rho(h, self) ==
  Then(Array_rho2(h, self), LAMBDA out :
  [h |-> Put(out.h, out.r, Map1(FSqrt, Get(out.h, out.r))), r |-> out.r])

\* ArrayMethods.phi
ArrayMethods_phi(h, self) == New(h, Map2(Atan2, Get(h, self.y), Get(h, self.x)))

\* The array of n ones that out[mask] = 1 broadcasts.
Ones(n) == [k \in 1..n |-> One]

\* ArrayMethods.cosdelta
ArrayMethods_cosdelta(h, self, other) ==
  Then(Array_mag2(h, self), LAMBDA denom0 :
  Then(Array_mag2(denom0.h, other), LAMBDA m2 :
  Then(Put(m2.h, denom0.r, Map2(FMul, Get(m2.h, denom0.r), Get(m2.h, m2.r))), LAMBDA h3 :
  Then(New(h3, Map1(LAMBDA d : Gt(d, 0), Get(h3, denom0.r))), LAMBDA mask :
  Then(New(mask.h, Compress(Get(mask.h, denom0.r), Get(mask.h, mask.r))), LAMBDA denom :
  Then(Put(denom.h, denom.r, Map1(FSqrt, Get(denom.h, denom.r))), LAMBDA h5 :
  Then(dot_array(h5, self, other), LAMBDA out :
  Then(Put(out.h, out.r,
           Scatter(Get(out.h, out.r), Get(out.h, mask.r),
                   Map2(FDiv, Compress(Get(out.h, out.r), Get(out.h, mask.r)),
                        Get(out.h, denom.r)))), LAMBDA h6 :
  Then(Put(h6, mask.r, Map1(LAMBDA b : ~b, Get(h6, mask.r))), LAMBDA h7 :
  Then(Put(h7, out.r,
           Scatter(Get(h7, out.r), Get(h7, mask.r),
                   Ones(Rank(Get(h7, mask.r), Len(Get(h7, mask.r)))))), LAMBDA h8 :
  [h |-> Put(h8, out.r, Map1(Clip, Get(h8, out.r))), r |-> out.r]))))))))))

\* out *= sign(normal.dot(a.cross(b))), for a = self.unit() and b = other.unit()
SignedBy(h, out, self, other, normal) ==
  Then(ArrayMethods_unit(h, self), LAMBDA a :
  Then(ArrayMethods_unit(a.h, other), LAMBDA b :
  Then(cross_array(b.h, a.r, b.r), LAMBDA x :
  Then(dot_array(x.h, normal, x.r), LAMBDA d :
  Put(d.h, out, Map2(AngMulSign, Get(d.h, out), Map1(FSign, Get(d.h, d.r))))))))

\* ArrayMethods.angle; normal is a vector, or NoNormal for normal=None.
NoNormal == [x |-> 0, y |-> 0, z |-> 0]
ArrayMethods_angle(h, self, other, normal, degrees) ==
  Then(ArrayMethods_cosdelta(h, self, other), LAMBDA c :
  Then(New(c.h, Map1(Acos, Get(c.h, c.r))), LAMBDA out :
  Then(IF normal # NoNormal THEN SignedBy(out.h, out.r, self, other, normal)
       ELSE out.h, LAMBDA h1 :
  [h |-> IF degrees THEN Put(h1, out.r, Map1(ToDegrees, Get(h1, out.r))) ELSE h1,
   r |-> out.r])))

\* tmp.x, tmp.y and tmp.z are replaced by their absolute values, and the result
\* is a new buffer: whether all three are below the tolerance.
AllBelow(h, tmp, tolerance) ==
  Then(Put(h, tmp.x, Map1(FAbs, Get(h, tmp.x))), LAMBDA h1 :
  Then(Put(h1, tmp.y, Map1(FAbs, Get(h1, tmp.y))), LAMBDA h2 :
  Then(Put(h2, tmp.z, Map1(FAbs, Get(h2, tmp.z))), LAMBDA h3 :
  Then(New(h3, Map1(LAMBDA v : Lt(v, tolerance), Get(h3, tmp.x))), LAMBDA out :
  Then(Put(out.h, out.r, Map2(LAMBDA p, v : p /\ Lt(v, tolerance),
                              Get(out.h, out.r), Get(out.h, tmp.y))), LAMBDA h4 :
  [h |-> Put(h4, out.r, Map2(LAMBDA p, v : p /\ Lt(v, tolerance),
                             Get(h4, out.r), Get(h4, tmp.z))),
   r |-> out.r])))))

\* ArrayMethods.isopposite
ArrayMethods_isopposite(h, self, other, tolerance) ==
  Then(add_array(h, self, other), LAMBDA tmp :
  AllBelow(tmp.h, tmp.r, tolerance))

\* ArrayMethods.isperpendicular: tmp is what dot returns, and tmp.x is read first.
ArrayMethods_isperpendicular(h, self, other, tolerance) ==
  Then(dot_array(h, self, other), LAMBDA tmp :
  IF "x" \notin Attributes(DotKind("array"))
  THEN [h |-> tmp.h,
        out |-> Raise("AttributeError", "'numpy.ndarray' object has no attribute 'x'")]
  ELSE Then(AllBelow(tmp.h, Get(tmp.h, tmp.r), tolerance), LAMBDA b :
       [h |-> b.h, out |-> Ok(Get(b.h, b.r))]))

\* Common.delta_phi in array mode.
Array_delta_phi(h, self, other) ==
  Then(ArrayMethods_phi(h, self), LAMBDA p1 :
  Then(ArrayMethods_phi(p1.h, other), LAMBDA p2 :
  New(p2.h, Map2(delta_phi_of, Get(p2.h, p1.r), Get(p2.h, p2.r)))))

\* Common.isparallel in array mode.
Array_isparallel(h, self, other, tolerance) ==
  Then(ArrayMethods_cosdelta(h, self, other), LAMBDA c :
  New(c.h, Map1(LAMBDA v : isparallel_of(v, tolerance), Get(c.h, c.r))))

\* Common.isantiparallel in array mode.
Array_isantiparallel(h, self, other, tolerance) ==
  Then(ArrayMethods_cosdelta(h, self, other), LAMBDA c :
  New(c.h, Map1(LAMBDA v : isantiparallel_of(v, tolerance), Get(c.h, c.r))))

\* Common.iscollinear in array mode.
Array_iscollinear(h, self, other, tolerance) ==
  Then(ArrayMethods_cosdelta(h, self, other), LAMBDA c :
  New(c.h, Map1(LAMBDA v : iscollinear_of(v, tolerance), Get(c.h, c.r))))

\* ------------------------------------------------------------- inputs
\* tolerance=1e-10, the default of every test: the smallest positive number.
DefaultTolerance == 1

\* The tolerances a caller passes.
Tolerances == {DefaultTolerance, Scale \div 2, 2 * Scale, 2 * Scale + 1}

Origin == Vec(0, 0, 0)
Ex == Vec(One, 0, 0)
Ey == Vec(0, One, 0)
Ez == Vec(0, 0, One)
MinusEx == Vec(-One, 0, 0)
V340 == Vec(3 * One, 4 * One, 0)
V430 == Vec(4 * One, 3 * One, 0)
\* A short vector: its squared magnitude is positive, the square of that is not.
Tiny == Vec(4, 0, 0)
\* A long vector: its squared magnitude is beyond the largest finite number.
Huge == Vec(MaxFinite, 0, 0)

\* Two short vectors whose rounded quotient dot/sqrt(mag2*mag2) exceeds 1.
Short1 == Vec(7, 7, 0)
Short2 == Vec(6, 4, 0)

\* What one position of the operands (self, other, normal) holds at the start.
Cases ==
  << <<Ex, MinusEx, Ez>>, <<Ey, Ex, Ez>>, <<Ex, Ey, Ez>>, <<Origin, Ex, Ez>>,
     <<Ex, Ex, Ez>>, <<Ex, Ey, Ex>>, <<V340, Origin, Ez>>, <<V340, V430, Ez>>,
     <<Tiny, Tiny, Ez>>, <<Huge, Huge, Ez>>, <<Short1, Short2, Ez>> >>

\* The arrays start as the cases from some first one on, taken at some stride.
Strides == {0, 1, 3}
CaseAt(first, stride, i) == Cases[((first - 1 + (i - 1) * stride) % Len(Cases)) + 1]

\* -------------------------------------------------------------- state
VARIABLES
  buf,   \* the component buffers of the array-mode operands self, other, normal
  ret    \* the call that returned last and what it produced, or Idle

vars == <<buf, ret>>

\* The array-mode operands: their component buffers.
SelfObj == [x |-> 1, y |-> 2, z |-> 3]
OtherObj == [x |-> 4, y |-> 5, z |-> 6]
NormalObj == [x |-> 7, y |-> 8, z |-> 9]
OperandIds == 1..9

\* The heap a call starts with, and the operands' buffers it leaves.
Heap(b) == [mem |-> b, next |-> 10]
Operands(h) == [id \in OperandIds |-> h.mem[id]]

\* The scalar-mode vector at position i of an array-mode operand.
Elem(v, i) == Vec(buf[v.x][i], buf[v.y][i], buf[v.z][i])

None == "None"
Idle == Call("idle", "", 0, 0, FALSE, FALSE, Ok(None))

Init ==
  /\ \E first \in 1..Len(Cases), stride \in Strides :
       buf = [id \in OperandIds |->
                [i \in 1..ArrayLen |->
                   LET v == CaseAt(first, stride, i)[(id - 1) \div 3 + 1]
                   IN  CASE id % 3 = 1 -> v.x [] id % 3 = 2 -> v.y [] OTHER -> v.z]]
  /\ ret = Idle

\* An array-mode call returns: the heap it leaves and its outcome.
Return(op, tol, normal, degrees, h, out) ==
  /\ ret.op = "idle"
  /\ buf' = Operands(h)
  /\ ret' = Call(op, "array", 0, tol, normal, degrees, out)

\* A scalar-mode call on the vectors at position i returns its outcome.
ReturnScalar(op, i, tol, degrees, out) ==
  /\ ret.op = "idle"
  /\ buf' = buf
  /\ ret' = Call(op, "scalar", i, tol, FALSE, degrees, out)

\* The value of the buffer (or of the vector) a call returned.
Value(c) == Ok(Get(c.h, c.r))
VectorValue(c) == Ok([x |-> Get(c.h, c.r.x), y |-> Get(c.h, c.r.y), z |-> Get(c.h, c.r.z)])

\* ------------------------------------------------- array-mode actions
ArrayMag2 ==
  \E c \in {Array_mag2(Heap(buf), SelfObj)} :
    Return("mag2", 0, FALSE, FALSE, c.h, Value(c))

ArrayMag ==
  \E c \in {Array_mag(Heap(buf), SelfObj)} :
    Return("mag", 0, FALSE, FALSE, c.h, Value(c))

ArrayRho2 ==
  \E c \in {Array_rho2(Heap(buf), SelfObj)} :
    Return("rho2", 0, FALSE, FALSE, c.h, Value(c))

ArrayRho ==
  \E c \in {ArrayMethods_rho(Heap(buf), SelfObj)} :
    Return("rho", 0, FALSE, FALSE, c.h, Value(c))

ArrayPhi ==
  \E c \in {ArrayMethods_phi(Heap(buf), SelfObj)} :
    Return("phi", 0, FALSE, FALSE, c.h, Value(c))

ArrayUnit ==
  \E c \in {ArrayMethods_unit(Heap(buf), SelfObj)} :
    Return("unit", 0, FALSE, FALSE, c.h, VectorValue(c))

ArrayUnitInplace ==
  Return("unit_inplace", 0, FALSE, FALSE,
         ArrayMethods_unit_inplace(Heap(buf), SelfObj), Ok(None))

ArrayCosdelta ==
  \E c \in {ArrayMethods_cosdelta(Heap(buf), SelfObj, OtherObj)} :
    Return("cosdelta", 0, FALSE, FALSE, c.h, Value(c))

ArrayAngle ==
  \E withNormal \in BOOLEAN, degrees \in BOOLEAN :
    \E c \in {ArrayMethods_angle(Heap(buf), SelfObj, OtherObj,
                                IF withNormal THEN NormalObj ELSE NoNormal, degrees)} :
      Return("angle", 0, withNormal, degrees, c.h, Value(c))

ArrayIsopposite ==
  \E tolerance \in Tolerances :
    \E c \in {ArrayMethods_isopposite(Heap(buf), SelfObj, OtherObj, tolerance)} :
      Return("isopposite", tolerance, FALSE, FALSE, c.h, Value(c))

ArrayIsperpendicular ==
  \E tolerance \in Tolerances :
    \E c \in {ArrayMethods_isperpendicular(Heap(buf), SelfObj, OtherObj, tolerance)} :
      Return("isperpendicular", tolerance, FALSE, FALSE, c.h, c.out)

ArrayDeltaPhi ==
  \E c \in {Array_delta_phi(Heap(buf), SelfObj, OtherObj)} :
    Return("delta_phi", 0, FALSE, FALSE, c.h, Value(c))

ArrayIsparallel ==
  \E tolerance \in Tolerances :
    \E c \in {Array_isparallel(Heap(buf), SelfObj, OtherObj, tolerance)} :
      Return("isparallel", tolerance, FALSE, FALSE, c.h, Value(c))

ArrayIsantiparallel ==
  \E tolerance \in Tolerances :
    \E c \in {Array_isantiparallel(Heap(buf), SelfObj, OtherObj, tolerance)} :
      Return("isantiparallel", tolerance, FALSE, FALSE, c.h, Value(c))

ArrayIscollinear ==
  \E tolerance \in Tolerances :
    \E c \in {Array_iscollinear(Heap(buf), SelfObj, OtherObj, tolerance)} :
      Return("iscollinear", tolerance, FALSE, FALSE, c.h, Value(c))

ArrayLt == Return("__lt__", 0, FALSE, FALSE, Heap(buf), __lt__(SelfObj, OtherObj))
ArrayGt == Return("__gt__", 0, FALSE, FALSE, Heap(buf), __gt__(SelfObj, OtherObj))
ArrayLe == Return("__le__", 0, FALSE, FALSE, Heap(buf), __le__(SelfObj, OtherObj))
ArrayGe == Return("__ge__", 0, FALSE, FALSE, Heap(buf), __ge__(SelfObj, OtherObj))

\* ------------------------------------------------ scalar-mode actions
ScalarMag ==
  \E i \in 1..ArrayLen : ReturnScalar("mag", i, 0, FALSE, Ok(mag(Elem(SelfObj, i))))

ScalarPhi ==
  \E i \in 1..ArrayLen : ReturnScalar("phi", i, 0, FALSE, Ok(phi(Elem(SelfObj, i))))

ScalarCosdelta ==
  \E i \in 1..ArrayLen :
    ReturnScalar("cosdelta", i, 0, FALSE, cosdelta(Elem(SelfObj, i), Elem(OtherObj, i)))

ScalarAngle ==
  \E i \in 1..ArrayLen, degrees \in BOOLEAN :
    ReturnScalar("angle", i, 0, degrees,
                 angle(Elem(SelfObj, i), Elem(OtherObj, i), degrees))

ScalarIsopposite ==
  \E i \in 1..ArrayLen, tolerance \in Tolerances :
    ReturnScalar("isopposite", i, tolerance, FALSE,
                 isopposite(Elem(SelfObj, i), Elem(OtherObj, i), tolerance))

ScalarIsperpendicular ==
  \E i \in 1..ArrayLen, tolerance \in Tolerances :
    ReturnScalar("isperpendicular", i, tolerance, FALSE,
                 isperpendicular(Elem(SelfObj, i), Elem(OtherObj, i), tolerance))

ScalarDeltaPhi ==
  \E i \in 1..ArrayLen :
    ReturnScalar("delta_phi", i, 0, FALSE,
                 Ok(delta_phi(Elem(SelfObj, i), Elem(OtherObj, i))))

ScalarIsparallel ==
  \E i \in 1..ArrayLen, tolerance \in Tolerances :
    ReturnScalar("isparallel", i, tolerance, FALSE,
                 isparallel(Elem(SelfObj, i), Elem(OtherObj, i), tolerance))

ScalarIsantiparallel ==
  \E i \in 1..ArrayLen, tolerance \in Tolerances :
    ReturnScalar("isantiparallel", i, tolerance, FALSE,
                 isantiparallel(Elem(SelfObj, i), Elem(OtherObj, i), tolerance))

ScalarIscollinear ==
  \E i \in 1..ArrayLen, tolerance \in Tolerances :
    ReturnScalar("iscollinear", i, tolerance, FALSE,
                 iscollinear(Elem(SelfObj, i), Elem(OtherObj, i), tolerance))

ScalarLt ==
  \E i \in 1..ArrayLen :
    ReturnScalar("__lt__", i, 0, FALSE, __lt__(Elem(SelfObj, i), Elem(OtherObj, i)))
ScalarGt ==
  \E i \in 1..ArrayLen :
    ReturnScalar("__gt__", i, 0, FALSE, __gt__(Elem(SelfObj, i), Elem(OtherObj, i)))
ScalarLe ==
  \E i \in 1..ArrayLen :
    ReturnScalar("__le__", i, 0, FALSE, __le__(Elem(SelfObj, i), Elem(OtherObj, i)))
ScalarGe ==
  \E i \in 1..ArrayLen :
    ReturnScalar("__ge__", i, 0, FALSE, __ge__(Elem(SelfObj, i), Elem(OtherObj, i)))

\* The caller drops the value the last call returned.
Discard ==
  /\ ret.op # "idle"
  /\ ret' = Idle
  /\ UNCHANGED buf

Next ==
  \/ ArrayMag2 \/ ArrayMag \/ ArrayRho2 \/ ArrayRho \/ ArrayPhi
  \/ ArrayUnit \/ ArrayUnitInplace \/ ArrayCosdelta \/ ArrayAngle
  \/ ArrayIsopposite \/ ArrayIsperpendicular \/ ArrayDeltaPhi
  \/ ArrayIsparallel \/ ArrayIsantiparallel \/ ArrayIscollinear
  \/ ArrayLt \/ ArrayGt \/ ArrayLe \/ ArrayGe
  \/ ScalarMag \/ ScalarPhi \/ ScalarCosdelta \/ ScalarAngle
  \/ ScalarIsopposite \/ ScalarIsperpendicular \/ ScalarDeltaPhi
  \/ ScalarIsparallel \/ ScalarIsantiparallel \/ ScalarIscollinear
  \/ ScalarLt \/ ScalarGt \/ ScalarLe \/ ScalarGe
  \/ Discard

Spec == Init /\ [][Next]_vars

\* ------------------------------------------------------------- claims
Positions == 1..ArrayLen
Finite3(v) == IsFinite(v.x) /\ IsFinite(v.y) /\ IsFinite(v.z)
Minus(v) == Vec(Neg(v.x), Neg(v.y), Neg(v.z))

\* What the scalar-mode operation named op returns on the vectors at position i.
ScalarOutcome(op, i, tolerance, degrees) ==
  LET a == Elem(SelfObj, i)
      b == Elem(OtherObj, i)
  IN  CASE op = "mag" -> Ok(mag(a))
        [] op = "phi" -> Ok(phi(a))
        [] op = "cosdelta" -> cosdelta(a, b)
        [] op = "angle" -> angle(a, b, degrees)
        [] op = "isopposite" -> isopposite(a, b, tolerance)
        [] op = "isperpendicular" -> isperpendicular(a, b, tolerance)

\* What the call in ret produced at position i: in array mode the element i of
\* the returned array, in scalar mode the value returned for position i.
At(i) == IF ret.mode = "array" THEN ret.out.val[i] ELSE ret.out.val
Covers(i) == ret.mode = "array" \/ ret.i = i

\* C1: for each of cosdelta, angle, isopposite, isperpendicular, mag and phi,
\* the array-mode result at every position i equals the scalar-mode result on
\* the vectors at i, and the two modes agree on whether the call fails.
C1_ModesAgree ==
  (ret.mode = "array" /\ ~ret.normal
   /\ ret.op \in {"mag", "phi", "cosdelta", "angle", "isopposite", "isperpendicular"})
  => \A i \in Positions :
       LET s == ScalarOutcome(ret.op, i, ret.tolerance, ret.degrees)
       IN  /\ ret.out.err = s.err
           /\ ret.out.err = "" => ret.out.val[i] = s.val

\* C2: cosdelta returns exactly 1 whenever self or other has zero squared
\* magnitude; in array mode a position whose product of squared magnitudes is
\* not > 0 holds 1 and every other position holds the clipped quotient; and
\* no division by zero occurs in either mode.
C2_DegenerateIsOne ==
  ret.op = "cosdelta" =>
    /\ ret.out.err # "ZeroDivisionError"
    /\ \A i \in Positions :
         LET a == Elem(SelfObj, i)
             b == Elem(OtherObj, i)
             denom == FMul(mag2(a), mag2(b))
         IN  /\ (Covers(i) /\ (Eq(mag2(a), 0) \/ Eq(mag2(b), 0))) => At(i) = One
             /\ ret.mode = "array" =>
                  ret.out.val[i] = IF Gt(denom, 0)
                                   THEN Clip(FDiv(dot(a, b), FSqrt(denom)))
                                   ELSE One

\* The azimuths at position i are numbers (not NaN).
Azimuths(i) == ~IsNaN(phi(Elem(SelfObj, i))) /\ ~IsNaN(phi(Elem(OtherObj, i)))
PhiDifference(i) == AngSub(phi(Elem(SelfObj, i)), phi(Elem(OtherObj, i)))

\* C3 as stated: delta_phi lies in the half-open interval (-pi, pi]: it is
\* never -pi.
C3_NeverMinusPi ==
  ret.op = "delta_phi" =>
    \A i \in Positions : (Covers(i) /\ Azimuths(i)) => (-Pi < At(i) /\ At(i) <= Pi)

\* C3 as amended: delta_phi lies in the closed interval [-pi, pi], and it is
\* -pi when phi1 - phi2 is exactly pi or -pi.
C3_ClosedInterval ==
  ret.op = "delta_phi" =>
    \A i \in Positions :
      (Covers(i) /\ Azimuths(i)) =>
        /\ -Pi <= At(i) /\ At(i) <= Pi
        /\ PhiDifference(i) \in {Pi, -Pi} => At(i) = -Pi

\* C3's case: delta_phi was called on azimuths that differ by exactly pi.
C3_Witness ==
  /\ ret.op = "delta_phi"
  /\ \E i \in Positions : Covers(i) /\ Azimuths(i) /\ PhiDifference(i) = -Pi
  /\ \E i \in Positions : Covers(i) /\ Azimuths(i) /\ PhiDifference(i) = Pi \div 2

Orderings == {"__lt__", "__gt__", "__le__", "__ge__"}

\* C4: each of <, >, <= and >= ends in TypeError "spatial vectors have no
\* natural ordering", never in a boolean, and changes no operand.
C4_OrderingRaises ==
  [][ret'.op \in Orderings =>
       /\ ret'.out = [err |-> "TypeError",
                      msg |-> "spatial vectors have no natural ordering"]
       /\ buf' = buf]_vars

\* C4's case: a comparison was attempted, in each mode.
C4_Witness == ret.op = "__lt__" /\ ret.mode = "scalar" /\ Raised(ret.out)

\* C5: scalar-mode isperpendicular returns a boolean for every pair of vectors,
\* and False for (3,4,0) and (4,3,0) with the default tolerance.
C5_IsperpendicularReturnsBoolean ==
  (ret.op = "isperpendicular" /\ ret.mode = "scalar") =>
    /\ ret.out.err = ""
    /\ ret.out.val \in BOOLEAN
    /\ (Elem(SelfObj, ret.i) = V340 /\ Elem(OtherObj, ret.i) = V430
        /\ ret.tolerance = DefaultTolerance) => ret.out.val = FALSE

\* C6: with the default tolerance, v.isparallel(v) is True and
\* v.isantiparallel(-v) is True for every nonzero vector v.
C6_SelfParallel ==
  \A i \in Positions :
    LET v == Elem(SelfObj, i)
        w == Elem(OtherObj, i)
    IN  (Covers(i) /\ ret.tolerance = DefaultTolerance /\ Finite3(v) /\ v # Origin)
        => /\ (ret.op = "isparallel" /\ w = v) => (ret.out.err = "" /\ At(i) = TRUE)
           /\ (ret.op = "isantiparallel" /\ w = Minus(v))
                => (ret.out.err = "" /\ At(i) = TRUE)

\* C7: whenever cosdelta completes, its result lies in [-1, 1], in scalar mode
\* and at every position in array mode.
C7_CosdeltaInUnitInterval ==
  (ret.op = "cosdelta" /\ ret.out.err = "") =>
    \A i \in Positions :
      Covers(i) => (~IsNaN(At(i)) /\ -One <= At(i) /\ At(i) <= One)

ReadOnly == {"mag2", "mag", "rho2", "rho", "phi", "cosdelta", "angle", "isopposite",
             "delta_phi", "isparallel", "isantiparallel", "iscollinear", "unit"}

\* C8: the array-mode operations mag2, mag, rho2, rho, phi, cosdelta, angle,
\* isopposite, delta_phi, isparallel, isantiparallel, iscollinear and
\* unit(inplace=False) leave the component buffers of self, other and normal as
\* they were; unit(inplace=True) changes only the receiver's and returns nothing.
C8_OperandsUnchanged ==
  [][/\ (ret'.mode = "array" /\ ret'.op \in ReadOnly) => buf' = buf
     /\ ret'.op = "unit_inplace" =>
          /\ ret'.out = Ok(None)
          /\ \A id \in OperandIds \ {SelfObj.x, SelfObj.y, SelfObj.z} :
               buf'[id] = buf[id]]_vars

\* C8's case: rho, which writes its result in place, returned a nonzero array.
C8_Witness ==
  /\ ret.op = "rho" /\ ret.mode = "array"
  /\ \E i \in Positions : ret.out.val[i] # 0 /\ buf[SelfObj.x][i] # ret.out.val[i]

\* The unsigned array-mode angle(other) at the current operands.
UnsignedAngle == Value(ArrayMethods_angle(Heap(buf), SelfObj, OtherObj, NoNormal, FALSE)).val

\* C9: with a normal, the absolute value of angle(other, normal) at every
\* position equals the unsigned angle(other) at that position.
C9_SignedAngleMagnitude ==
  (ret.op = "angle" /\ ret.mode = "array" /\ ret.normal /\ ~ret.degrees) =>
    \A i \in Positions :
      /\ ~IsNaN(ret.out.val[i])
      /\ Abs(ret.out.val[i]) = UnsignedAngle[i]

\* What isparallel and isantiparallel return, in the mode of ret, at position i.
ParallelAt(i) ==
  IF ret.mode = "array"
  THEN Value(Array_isparallel(Heap(buf), SelfObj, OtherObj, ret.tolerance)).val[i]
  ELSE isparallel(Elem(SelfObj, i), Elem(OtherObj, i), ret.tolerance) = Ok(TRUE)
AntiparallelAt(i) ==
  IF ret.mode = "array"
  THEN Value(Array_isantiparallel(Heap(buf), SelfObj, OtherObj, ret.tolerance)).val[i]
  ELSE isantiparallel(Elem(SelfObj, i), Elem(OtherObj, i), ret.tolerance) = Ok(TRUE)
HasZero(i) == Elem(SelfObj, i) = Origin \/ Elem(OtherObj, i) = Origin

\* C10: iscollinear is true exactly when isparallel or isantiparallel is; a zero
\* vector is parallel and collinear with every vector and, for a tolerance of at
\* most 2, never antiparallel.
C10_CollinearIffAligned ==
  \A i \in Positions :
    Covers(i) =>
      /\ ret.op = "iscollinear" =>
           ((ret.out.err = "" /\ At(i)) <=> (ParallelAt(i) \/ AntiparallelAt(i)))
      /\ (ret.op \in {"isparallel", "iscollinear"} /\ HasZero(i))
           => (ret.out.err = "" /\ At(i))
      /\ (ret.op = "isantiparallel" /\ HasZero(i) /\ ret.tolerance <= 2 * One)
           => (ret.out.err = "" /\ ~At(i))

\* C10's case: iscollinear returned True for a pair that is antiparallel and not
\* parallel.
C10_Witness ==
  /\ ret.op = "iscollinear" /\ ret.out.err = ""
  /\ \E i \in Positions : Covers(i) /\ At(i) /\ ~ParallelAt(i) /\ AntiparallelAt(i)
  /\ \E i \in Positions : Covers(i) /\ HasZero(i) /\ At(i)

====
